---- MODULE Spec2Model ----
(***************************************************************************)
(* FreeFoil-Converter: the airfoil utilities (parseDatFile,                *)
(* transformPoints, generateCSV, generateDXF), the viewer's domain         *)
(* computation, and the App component's state with its upload, read and    *)
(* slider handlers.                                                        *)
(*                                                                         *)
(* Texts are sequences of one-character strings.  A JavaScript number is   *)
(* a record [n, d, e]: the value (n/d) * 10^e kept exactly (no rounding    *)
(* to 53 bits), with d = 0 for the IEEE specials: NaN = 0/0,               *)
(* +Infinity = 1/0, -Infinity = -1/0.  A finite non-zero value is kept     *)
(* with 1 <= |n/d| < 10 and gcd(n, d) = 1; zero is [0, 1, 0] (the sign of  *)
(* zero is not kept).                                                      *)
(***************************************************************************)
EXTENDS Integers, Sequences, FiniteSets, TLC

VARIABLES
    content,            \* parseDatFile: the text of the uploaded file
    fileName,           \* parseDatFile: the name of the uploaded file
    parsed,             \* the outcome of parseDatFile (returned data or thrown error)
    data,               \* transformPoints: the AirfoilData argument
    chord,              \* transformPoints: targetChord
    thicknessPercent,   \* transformPoints: targetThicknessPercent
    transformed,        \* the outcome of transformPoints
    points,             \* the Point[] handed to the viewer or to an exporter
    dimensions,         \* AirfoilViewer: the measured container size
    projection,         \* AirfoilViewer: the domains the render effect computed
    csv,                \* the outcome of generateCSV
    dxf,                \* the outcome of generateDXF
    error,              \* App: the error state (null or a message)
    reads,              \* App: the FileReader reads in flight
    selected            \* App: the files selected so far, in order

vars == <<content, fileName, parsed, data, chord, thicknessPercent, transformed,
          points, dimensions, projection, csv, dxf, error, reads, selected>>

-----------------------------------------------------------------------------
(* Numbers *)

Abs(i) == IF i < 0 THEN -i ELSE i

Sign(i) == IF i < 0 THEN -1 ELSE IF i > 0 THEN 1 ELSE 0

RECURSIVE Gcd(_, _)
Gcd(a, b) == IF b = 0 THEN a ELSE Gcd(b, a % b)

RECURSIVE Pow10(_)
Pow10(k) == IF k <= 0 THEN 1 ELSE 10 * Pow10(k - 1)

NaN == [n |-> 0, d |-> 0, e |-> 0]
PosInf == [n |-> 1, d |-> 0, e |-> 0]
NegInf == [n |-> -1, d |-> 0, e |-> 0]
Zero == [n |-> 0, d |-> 1, e |-> 0]

IsNaN(a) == a.d = 0 /\ a.n = 0
IsInf(a) == a.d = 0 /\ a.n # 0
IsFinite(a) == a.d > 0

\* The finite value (n/d) * 10^e in its kept form; d > 0.
RECURSIVE Norm(_, _, _)
Norm(n, d, e) ==
    IF n = 0 THEN Zero
    ELSE LET g == Gcd(Abs(n), d)
             nn == n \div g
             dd == d \div g
         IN  IF Abs(nn) >= 10 * dd THEN Norm(nn, 10 * dd, e + 1)
             ELSE IF Abs(nn) < dd THEN Norm(10 * nn, dd, e - 1)
             ELSE [n |-> nn, d |-> dd, e |-> e]

Int2Num(i) == Norm(i, 1, 0)
Rat(n, d) == Norm(n, d, 0)

Neg(a) == [a EXCEPT !.n = -a.n]

\* a + b (IEEE: NaN is contagious, Infinity + -Infinity is NaN)
Add(a, b) ==
    IF IsNaN(a) \/ IsNaN(b) THEN NaN
    ELSE IF IsInf(a) THEN (IF IsInf(b) /\ b.n # a.n THEN NaN ELSE a)
    ELSE IF IsInf(b) THEN b
    ELSE IF a.n = 0 THEN b
    ELSE IF b.n = 0 THEN a
    ELSE LET e == IF a.e < b.e THEN a.e ELSE b.e
         IN  Norm(a.n * Pow10(a.e - e) * b.d + b.n * Pow10(b.e - e) * a.d,
                  a.d * b.d, e)

Sub(a, b) == Add(a, Neg(b))

\* a * b (IEEE: Infinity * 0 is NaN)
Mul(a, b) ==
    IF IsNaN(a) \/ IsNaN(b) THEN NaN
    ELSE IF IsInf(a) \/ IsInf(b)
         THEN (IF a.n = 0 \/ b.n = 0 THEN NaN
               ELSE IF Sign(a.n) = Sign(b.n) THEN PosInf ELSE NegInf)
    ELSE Norm(a.n * b.n, a.d * b.d, a.e + b.e)

\* a / b (IEEE: 0/0 and Infinity/Infinity are NaN, x/0 is an Infinity)
Div(a, b) ==
    IF IsNaN(a) \/ IsNaN(b) THEN NaN
    ELSE IF IsInf(a)
         THEN (IF IsInf(b) THEN NaN
               ELSE IF Sign(a.n) * (IF b.n < 0 THEN -1 ELSE 1) > 0
                    THEN PosInf ELSE NegInf)
    ELSE IF IsInf(b) THEN Zero
    ELSE IF b.n = 0
         THEN (IF a.n = 0 THEN NaN ELSE IF a.n > 0 THEN PosInf ELSE NegInf)
    ELSE Norm(a.n * b.d * Sign(b.n), a.d * Abs(b.n), a.e - b.e)

\* |a| < |b| for non-zero a, b that are not NaN
MagLt(a, b) ==
    IF IsInf(a) THEN FALSE
    ELSE IF IsInf(b) THEN TRUE
    ELSE IF a.e # b.e THEN a.e < b.e
    ELSE Abs(a.n) * b.d < Abs(b.n) * a.d

\* a < b (IEEE: every comparison with NaN is false)
Lt(a, b) ==
    /\ ~IsNaN(a)
    /\ ~IsNaN(b)
    /\ IF Sign(a.n) # Sign(b.n) THEN Sign(a.n) < Sign(b.n)
       ELSE IF a.n = 0 THEN FALSE
       ELSE IF a.n > 0 THEN MagLt(a, b)
       ELSE MagLt(b, a)

Gt(a, b) == Lt(b, a)
Le(a, b) == ~IsNaN(a) /\ ~IsNaN(b) /\ ~Lt(b, a)

\* the least and the greatest number of a non-empty set without NaN
Least(S) == CHOOSE v \in S : \A w \in S : Le(v, w)
Greatest(S) == CHOOSE v \in S : \A w \in S : Le(w, v)

\* Math.max(...xs): -Infinity for no argument, NaN if any argument is NaN
RECURSIVE MathMax(_)
MathMax(xs) ==
    IF xs = <<>> THEN NegInf
    ELSE LET m == MathMax(Tail(xs))
             x == Head(xs)
         IN  IF IsNaN(x) \/ IsNaN(m) THEN NaN
             ELSE IF Lt(m, x) THEN x ELSE m

\* Math.min(...xs): +Infinity for no argument, NaN if any argument is NaN
RECURSIVE MathMin(_)
MathMin(xs) ==
    IF xs = <<>> THEN PosInf
    ELSE LET m == MathMin(Tail(xs))
             x == Head(xs)
         IN  IF IsNaN(x) \/ IsNaN(m) THEN NaN
             ELSE IF Lt(x, m) THEN x ELSE m

-----------------------------------------------------------------------------
(* Texts *)

DigitChars == <<"0", "1", "2", "3", "4", "5", "6", "7", "8", "9">>
IsDigit(c) == \E i \in 1..Len(DigitChars) : DigitChars[i] = c
DigitOf(c) == (CHOOSE i \in 1..Len(DigitChars) : DigitChars[i] = c) - 1

\* what String.prototype.trim removes and the regular expression's \s matches
WhiteSpace == {" ", "\t", "\r", "\n", "\f"}
IsSpace(c) == c \in WhiteSpace

\* s.split(sep) for a one-character separator
RECURSIVE Split(_, _)
Split(s, sep) ==
    IF \A i \in 1..Len(s) : s[i] # sep THEN <<s>>
    ELSE LET k == CHOOSE i \in 1..Len(s) :
                      s[i] = sep /\ \A j \in 1..(i - 1) : s[j] # sep
         IN  <<SubSeq(s, 1, k - 1)>> \o Split(SubSeq(s, k + 1, Len(s)), sep)

\* s.trim()
Trim(s) ==
    IF \A i \in 1..Len(s) : IsSpace(s[i]) THEN <<>>
    ELSE LET a == CHOOSE i \in 1..Len(s) :
                      ~IsSpace(s[i]) /\ \A j \in 1..(i - 1) : IsSpace(s[j])
             b == CHOOSE i \in 1..Len(s) :
                      ~IsSpace(s[i]) /\ \A j \in (i + 1)..Len(s) : IsSpace(s[j])
         IN  SubSeq(s, a, b)

\* the index of the first occurrence of pat in s, 0 if there is none
IndexOf(s, pat) ==
    LET At(i) == i + Len(pat) - 1 <= Len(s) /\ SubSeq(s, i, i + Len(pat) - 1) = pat
    IN  IF \E i \in 1..Len(s) : At(i)
        THEN CHOOSE i \in 1..Len(s) : At(i) /\ \A j \in 1..(i - 1) : ~At(j)
        ELSE 0

\* s.replace(pat, rep) with a string pattern: the first occurrence only
Replace(s, pat, rep) ==
    LET k == IndexOf(s, pat)
    IN  IF k = 0 THEN s
        ELSE SubSeq(s, 1, k - 1) \o rep \o SubSeq(s, k + Len(pat), Len(s))

-----------------------------------------------------------------------------
(* The coordinate pattern and parseFloat *)

IsSignChar(c) == c = "+" \/ c = "-"
IsExpChar(c) == c = "e" \/ c = "E"

StripSign(t) == IF t # <<>> /\ IsSignChar(t[1]) THEN Tail(t) ELSE t

AllDigits(t) == t # <<>> /\ \A i \in 1..Len(t) : IsDigit(t[i])

\* the position of the exponent marker of t, 0 if there is none
ExpPos(t) ==
    IF \E i \in 1..Len(t) : IsExpChar(t[i])
    THEN CHOOSE i \in 1..Len(t) : IsExpChar(t[i]) /\ \A j \in 1..(i - 1) : ~IsExpChar(t[j])
    ELSE 0

Mantissa(t) ==
    LET u == StripSign(t)
        k == ExpPos(u)
    IN  IF k = 0 THEN u ELSE SubSeq(u, 1, k - 1)

Exponent(t) ==
    LET u == StripSign(t)
        k == ExpPos(u)
    IN  IF k = 0 THEN <<>> ELSE SubSeq(u, k + 1, Len(u))

\* \d*\.?\d+
IsMantissa(m) ==
    /\ m # <<>>
    /\ \A i \in 1..Len(m) : IsDigit(m[i]) \/ m[i] = "."
    /\ Cardinality({i \in 1..Len(m) : m[i] = "."}) <= 1
    /\ IsDigit(m[Len(m)])

\* [+-]?\d*\.?\d+(?:[eE][+-]?\d+)? matching the whole of t
IsNumber(t) ==
    /\ IsMantissa(Mantissa(t))
    /\ ExpPos(StripSign(t)) # 0 => AllDigits(StripSign(Exponent(t)))

\* the maximal runs of non-space characters of s, in order
RECURSIVE Tokens(_)
Tokens(s) ==
    LET u == Trim(s)
    IN  IF u = <<>> THEN <<>>
        ELSE IF \A i \in 1..Len(u) : ~IsSpace(u[i]) THEN <<u>>
        ELSE LET k == CHOOSE i \in 1..Len(u) :
                          IsSpace(u[i]) /\ \A j \in 1..(i - 1) : ~IsSpace(u[j])
             IN  <<SubSeq(u, 1, k - 1)>> \o Tokens(SubSeq(u, k, Len(u)))

\* line.match(coordinateRegex): the two captured groups, or <<>> for null
Match(line) ==
    LET ts == Tokens(line)
    IN  IF Len(ts) = 2 /\ IsNumber(ts[1]) /\ IsNumber(ts[2]) THEN ts ELSE <<>>

RECURSIVE DigitsValue(_)
DigitsValue(ds) ==
    IF ds = <<>> THEN 0 ELSE 10 * DigitsValue(SubSeq(ds, 1, Len(ds) - 1)) + DigitOf(ds[Len(ds)])

\* parseFloat(t) for a t the pattern's group captured
ParseFloat(t) ==
    LET m == Mantissa(t)
        x == Exponent(t)
        dot == IndexOf(m, <<".">>)
        digits == IF dot = 0 THEN m ELSE SubSeq(m, 1, dot - 1) \o SubSeq(m, dot + 1, Len(m))
        fracLen == IF dot = 0 THEN 0 ELSE Len(m) - dot
        exp == IF x = <<>> THEN 0
               ELSE (IF x[1] = "-" THEN -1 ELSE 1) * DigitsValue(StripSign(x))
        v == Norm(DigitsValue(digits), 1, exp - fracLen)
    IN  IF t[1] = "-" THEN Neg(v) ELSE v

-----------------------------------------------------------------------------
(* parseDatFile *)

\* (a variant that accepts two points)
MinPointsTwo == 3 - 1

MinPoints == 3

DatExtension == <<".", "d", "a", "t">>

NotEnoughPoints == "Invalid .dat file: Not enough coordinate points found."

NoData == [name |-> <<>>, points |-> <<>>, originalThickness |-> Zero]
NoOutcome == [status |-> "none", data |-> NoData, message |-> ""]
Returned(d) == [status |-> "ok", data |-> d, message |-> ""]
Thrown(m) == [status |-> "error", data |-> NoData, message |-> m]

Point(x, y) == [x |-> x, y |-> y]

\* content.split('\n').map(l => l.trim()).filter(l => l.length > 0)
RECURSIVE NonEmptyTrimmed(_)
NonEmptyTrimmed(ls) ==
    IF ls = <<>> THEN <<>>
    ELSE LET t == Trim(Head(ls))
         IN  (IF Len(t) > 0 THEN <<t>> ELSE <<>>) \o NonEmptyTrimmed(Tail(ls))

Lines(text) == NonEmptyTrimmed(Split(text, "\n"))

\* (a variant that claims any first non-matching line as the name, wherever it is)
ScanStepAnyHeader(st, lines, i) ==
    LET line == lines[i]
        match == Match(line)
    IN  IF match # <<>>
        THEN [st EXCEPT !.points =
                 Append(@, Point(ParseFloat(match[1]), ParseFloat(match[2])))]
        ELSE IF ~st.headerFound
        THEN [st EXCEPT !.name = line, !.headerFound = TRUE]
        ELSE st

\* (a variant that drops a point already in the list)
ScanStepDedup(st, lines, i) ==
    LET line == lines[i]
        match == Match(line)
        p == IF match # <<>>
             THEN Point(ParseFloat(match[1]), ParseFloat(match[2]))
             ELSE Point(NaN, NaN)
    IN  IF match # <<>>
        THEN (IF \E k \in 1..Len(st.points) : st.points[k] = p THEN st
              ELSE [st EXCEPT !.points = Append(@, p)])
        ELSE IF i = 1 /\ ~st.headerFound
        THEN [st EXCEPT !.name = line, !.headerFound = TRUE]
        ELSE st

\* one turn of the scan loop on lines[i] (i counts from 1 here, from 0 in the code)
ScanStep(st, lines, i) ==
    LET line == lines[i]
        match == Match(line)
    IN  IF match # <<>>
        THEN [st EXCEPT !.points =
                 Append(@, Point(ParseFloat(match[1]), ParseFloat(match[2])))]
        ELSE IF i = 1 /\ ~st.headerFound
        THEN [st EXCEPT !.name = line, !.headerFound = TRUE]
        ELSE st

\* the scan loop: the state after lines[1..i]
RECURSIVE Scan(_, _, _)
Scan(st, lines, i) ==
    IF i = 0 THEN st ELSE ScanStep(Scan(st, lines, i - 1), lines, i)

Xs(ps) == [i \in 1..Len(ps) |-> ps[i].x]
Ys(ps) == [i \in 1..Len(ps) |-> ps[i].y]

\* (a variant that shifts to the origin and leaves the scale of the file)
NormalizePointsUnscaled(ps, minX, rawChord) ==
    [i \in 1..Len(ps) |-> Point(Sub(ps[i].x, minX), ps[i].y)]

\* points.map(p => ({ x: (p.x - minX) / rawChord, y: p.y / rawChord }))
NormalizePoints(ps, minX, rawChord) ==
    [i \in 1..Len(ps) |->
        Point(Div(Sub(ps[i].x, minX), rawChord), Div(ps[i].y, rawChord))]

parseDatFile(text, file) ==
    LET lines == Lines(text)
        st == Scan([points |-> <<>>,
                    name |-> Replace(file, DatExtension, <<>>),
                    headerFound |-> FALSE], lines, Len(lines))
        ps == st.points
    IN  IF Len(ps) < MinPoints THEN Thrown(NotEnoughPoints)
        ELSE LET maxY == MathMax(Ys(ps))
                 minY == MathMin(Ys(ps))
                 originalThickness == Sub(maxY, minY)
                 minX == MathMin(Xs(ps))
                 maxX == MathMax(Xs(ps))
                 rawChord == Sub(maxX, minX)
             IN  Returned([name |-> st.name,
                           points |-> NormalizePoints(ps, minX, rawChord),
                           originalThickness |-> Div(originalThickness, rawChord)])

-----------------------------------------------------------------------------
(* The inputs *)

MaxLines == 4

LinePool ==
    { <<"N", " ", "1", "2">>,                       \* a label
      <<"0", " ", "0">>,
      <<" ", "1", ".", "0", "\t", "0", "\r">>,
      <<"1", "e", "1", " ", "+", ".", "1">>,
      <<"0", " ", "-", "5", "E", "-", "1">>,
      <<"1", ".", " ", "0">>,                       \* "1." is not a number of the pattern
      <<"\r">> }                                    \* a blank line

FileNames ==
    { <<"a", ".", "d", "a", "t">>,
      <<"a", ".", "t", "x", "t">>,
      <<"a", ".", "d", "a", "t", ".", "t", "x", "t">> }

RECURSIVE Join(_, _)
Join(ls, sep) ==
    IF ls = <<>> THEN <<>>
    ELSE IF Len(ls) = 1 THEN ls[1]
    ELSE ls[1] \o <<sep>> \o Join(Tail(ls), sep)

Listings == { Join(ls, "\n") : ls \in UNION { [1..k -> LinePool] : k \in 0..MaxLines } }

NoPoints == [status |-> "none", points |-> <<>>]
NoProjection == [status |-> "none", xDomain |-> <<>>, yDomain |-> <<>>,
                 xRange |-> <<>>, yRange |-> <<>>]
NoText == [status |-> "none", text |-> <<>>]
NoSize == [width |-> 0, height |-> 0]

\* the parts of the state a specification does not use
TransformIdle ==
    /\ data = NoData
    /\ chord = Zero
    /\ thicknessPercent = Zero
    /\ transformed = NoPoints

ViewerIdle ==
    /\ dimensions = NoSize
    /\ projection = NoProjection

ExportIdle == csv = NoText /\ dxf = NoText

\* error === null (no message is empty)
NoError == ""

AppIdle ==
    /\ error = NoError
    /\ reads = {}
    /\ selected = <<>>

-----------------------------------------------------------------------------
(* The parser applied to an uploaded text *)

InitParse ==
    /\ content \in Listings
    /\ fileName \in FileNames
    /\ parsed = NoOutcome
    /\ points = <<>>
    /\ TransformIdle
    /\ ViewerIdle
    /\ ExportIdle
    /\ AppIdle

ParseDatFile ==
    /\ parsed.status = "none"
    /\ parsed' = parseDatFile(content, fileName)
    /\ UNCHANGED <<content, fileName, data, chord, thicknessPercent, transformed,
                   points, dimensions, projection, csv,
                   dxf, error, reads, selected>>

NextParse == ParseDatFile

SpecParse == InitParse /\ [][NextParse]_vars

-----------------------------------------------------------------------------
(* What the claims about the parser speak of *)

RawLines == Split(content, "\n")

\* what the coordinate pattern captures on each line of the input
Matches == LET rl == RawLines IN [i \in 1..Len(rl) |-> Match(rl[i])]

\* the lines of the input that match the coordinate pattern
CoordLines == LET ms == Matches IN { i \in 1..Len(ms) : ms[i] # <<>> }

\* the k-th smallest element of a set of line numbers
Nth(S, k) == CHOOSE i \in S : Cardinality({ j \in S : j <= i }) = k

\* the numbers written on the matching lines, in the order of the file
RawPoints ==
    LET ms == Matches
        cl == { i \in 1..Len(ms) : ms[i] # <<>> }
    IN  [k \in 1..Cardinality(cl) |->
            LET m == ms[Nth(cl, k)] IN Point(ParseFloat(m[1]), ParseFloat(m[2]))]

RawXs == LET rp == RawPoints IN { rp[k].x : k \in 1..Len(rp) }

ZeroChord == Cardinality(RawXs) = 1

Trimmed == LET rl == RawLines IN [i \in 1..Len(rl) |-> Trim(rl[i])]

NonBlank == LET ts == Trimmed IN { i \in 1..Len(ts) : ts[i] # <<>> }
FirstNonBlank == Nth(NonBlank, 1)
HasLabel == LET nb == NonBlank IN nb # {} /\ Nth(nb, 1) \notin CoordLines

\* the non-matching, non-blank lines that are not the first non-blank line
StrayLines ==
    LET nb == NonBlank
        cl == CoordLines
    IN  IF nb = {} THEN {} ELSE { i \in nb \ cl : i # Nth(nb, 1) }

Parsed == parsed.status # "none"

\* C1: a text with fewer than 3 lines matching the coordinate pattern makes parse
\* fail with an error, and no AirfoilData is returned.
C1_TooFewPointsFails ==
    (Parsed /\ Cardinality(CoordLines) < 3)
        => (parsed.status = "error" /\ parsed.data = NoData)

C1_Witness ==
    /\ parsed.status = "error"
    /\ Cardinality(CoordLines) = 2

\* C2: a listing with at least 3 coordinate lines whose x values are all equal
\* makes parse fail (zero chord span) instead of returning an AirfoilData.
C2_ZeroChordFails ==
    (Parsed /\ Cardinality(CoordLines) >= 3 /\ ZeroChord)
        => parsed.status = "error"

\* C3: for a listing with at least 3 coordinate lines and a non-zero chord span,
\* the returned points have an x-bounding-box of width exactly 1.
C3_UnitWidth ==
    (Parsed /\ Cardinality(CoordLines) >= 3 /\ ~ZeroChord)
        => /\ parsed.status = "ok"
           /\ LET ps == parsed.data.points
              IN  \E a, b \in 1..Len(ps) :
                    /\ \A k \in 1..Len(ps) : Le(ps[a].x, ps[k].x) /\ Le(ps[k].x, ps[b].x)
                    /\ Sub(ps[b].x, ps[a].x) = Int2Num(1)

C3_Witness ==
    /\ parsed.status = "ok"
    /\ LET xs == RawXs IN Sub(Greatest(xs), Least(xs)) = Int2Num(9)

\* C4: the returned sequence has one point per matching line, the i-th point being
\* the normalization of the i-th matching line: nothing is sorted, dropped or
\* deduplicated.
C4_OrderAndMultiplicity ==
    parsed.status = "ok"
        => LET ps == parsed.data.points
               raw == RawPoints
               xs == { raw[k].x : k \in 1..Len(raw) }
               minX == Least(xs)
               span == Sub(Greatest(xs), minX)
           IN  /\ Len(ps) = Cardinality(CoordLines)
               /\ \A k \in 1..Len(ps) :
                    /\ ps[k].x = Div(Sub(raw[k].x, minX), span)
                    /\ ps[k].y = Div(raw[k].y, span)

C4_Witness ==
    /\ parsed.status = "ok"
    /\ ~ZeroChord
    /\ LET raw == RawPoints
       IN  \E i, j \in 1..Len(raw) : i < j /\ raw[i] = raw[j]
    /\ LET ps == parsed.data.points
       IN  \E k \in 1..(Len(ps) - 1) : Lt(ps[k + 1].x, ps[k].x)

\* the input without its stray lines
WithoutStrayLines ==
    LET rl == RawLines
        keep == (1..Len(rl)) \ StrayLines
    IN  Join([k \in 1..Cardinality(keep) |-> rl[Nth(keep, k)]], "\n")

\* C5: a non-matching line becomes the name if and only if it is the first
\* non-empty line of the input; every other non-matching line is skipped: with or
\* without those lines the outcome of parse (name, points, error) is the same.
C5_LabelOnlyFirstLine ==
    Parsed
        => LET stray == StrayLines
               label == HasLabel
               ts == Trimmed
           IN  /\ stray # {} => parsed = parseDatFile(WithoutStrayLines, fileName)
               /\ parsed.status = "ok"
                    => /\ label => parsed.data.name = ts[FirstNonBlank]
                       /\ ~label => \A i \in stray : parsed.data.name # ts[i]

C5_Witness ==
    /\ parsed.status = "ok"
    /\ ~HasLabel
    /\ StrayLines # {}

\* the name without its last extension
StripExtension(f) ==
    LET dots == { i \in 1..Len(f) : f[i] = "." }
    IN  IF dots = {} THEN f
        ELSE SubSeq(f, 1, (CHOOSE i \in dots : \A j \in dots : j <= i) - 1)

\* C6: when the first non-empty line is a coordinate line, the returned name is
\* sourceName with its extension stripped, whatever the sourceName.
C6_DefaultNameStripsExtension ==
    (parsed.status = "ok" /\ ~HasLabel)
        => parsed.data.name = StripExtension(fileName)

-----------------------------------------------------------------------------
(* transformPoints *)

Hundred == Int2Num(100)
One == Int2Num(1)

\* (a variant that forgets the chord on y)
transformPointsYUnscaled(d, targetChord, targetThicknessPercent) ==
    LET currentMaxThickness == d.originalThickness
        targetMaxThicknessRatio == Div(targetThicknessPercent, Hundred)
        yScale == IF Gt(currentMaxThickness, Zero)
                  THEN Div(targetMaxThicknessRatio, currentMaxThickness)
                  ELSE One
    IN  [i \in 1..Len(d.points) |->
            Point(Mul(d.points[i].x, targetChord), Mul(d.points[i].y, yScale))]

transformPoints(d, targetChord, targetThicknessPercent) ==
    LET currentMaxThickness == d.originalThickness
        targetMaxThicknessRatio == Div(targetThicknessPercent, Hundred)
        yScale == IF Gt(currentMaxThickness, Zero)
                  THEN Div(targetMaxThicknessRatio, currentMaxThickness)
                  ELSE One
    IN  [i \in 1..Len(d.points) |->
            Point(Mul(d.points[i].x, targetChord),
                  Mul(Mul(d.points[i].y, yScale), targetChord))]

MaxPoints == 3

CoordPool == { l \in LinePool : Match(l) # <<>> }

\* listings of coordinate lines only, long enough to parse
CoordListings ==
    { Join(ls, "\n") : ls \in UNION { [1..k -> CoordPool] : k \in MinPoints..MaxPoints } }

Chords == { Int2Num(-1), Zero, Int2Num(2), Int2Num(100) }
ThicknessPercents == { Int2Num(-5), Zero, Int2Num(12), Rat(41, 2) }

\* parse, then transform: what the application does with an uploaded file
InitTransform ==
    /\ content \in CoordListings
    /\ fileName = <<"a", ".", "d", "a", "t">>
    /\ parsed = NoOutcome
    /\ points = <<>>
    /\ TransformIdle
    /\ ViewerIdle
    /\ ExportIdle
    /\ AppIdle

TransformPoints ==
    /\ parsed.status = "ok"
    /\ \E c \in Chords, t \in ThicknessPercents :
         /\ data' = parsed.data
         /\ chord' = c
         /\ thicknessPercent' = t
         /\ transformed' = [status |-> "ok", points |-> transformPoints(parsed.data, c, t)]
    /\ UNCHANGED <<content, fileName, parsed, points, dimensions, projection, csv,
                   dxf, error, reads, selected>>

NextTransform == ParseDatFile \/ TransformPoints

SpecTransform == InitTransform /\ [][NextTransform]_vars

Transformed == transformed.status # "none"

\* the y amplification the claim defines, where it defines one
ClaimedYScale(nt, t) ==
    IF Gt(nt, Zero) THEN Div(Div(t, Hundred), nt) ELSE One

\* C7: for chord > 0 and thicknessPercent > 0, transform returns as many points as
\* it was given, and point i divided by chord is the input point i with y alone
\* scaled by yScale = (thicknessPercent/100)/normalizedThickness, or by 1 when
\* normalizedThickness is 0.
C7_TransformScales ==
    (Transformed /\ Gt(chord, Zero) /\ Gt(thicknessPercent, Zero))
        => /\ transformed.status = "ok"
           /\ Len(transformed.points) = Len(data.points)
           /\ \A i \in 1..Len(data.points) :
                /\ Div(transformed.points[i].x, chord) = data.points[i].x
                /\ (Gt(data.originalThickness, Zero) \/ data.originalThickness = Zero)
                     => Div(transformed.points[i].y, chord)
                          = Mul(data.points[i].y,
                                ClaimedYScale(data.originalThickness, thicknessPercent))

C7_Witness ==
    /\ transformed.status = "ok"
    /\ chord = Int2Num(100)
    /\ thicknessPercent = Int2Num(12)
    /\ Gt(data.originalThickness, Zero)
    /\ IsFinite(data.originalThickness)
    /\ \E i \in 1..Len(data.points) : transformed.points[i].y # Zero

\* C8: transform called with chord <= 0 or thicknessPercent <= 0 fails with an
\* error and returns no points.
C8_RejectsNonPositive ==
    (Transformed /\ (Le(chord, Zero) \/ Le(thicknessPercent, Zero)))
        => transformed.status = "error"

\* C13: for every listing that parse accepts with normalizedThickness > 0, and
\* every chord > 0 and thicknessPercent > 0, the points of
\* transform(parse(listing), chord, thicknessPercent) have the x-extent
\* [0, chord] exactly and a y-extent of height (thicknessPercent/100) * chord.
C13_TargetAttained ==
    (Transformed /\ Gt(data.originalThickness, Zero)
         /\ Gt(chord, Zero) /\ Gt(thicknessPercent, Zero))
        => LET xs == Xs(transformed.points)
               ys == Ys(transformed.points)
           IN  /\ MathMin(xs) = Zero
               /\ MathMax(xs) = chord
               /\ Sub(MathMax(ys), MathMin(ys)) = Mul(Div(thicknessPercent, Hundred), chord)

\* the targets are attained by every listing whose x values are not all equal
TargetAttainedOffZeroChord == ~ZeroChord => C13_TargetAttained

\* a listing with a chord and a thickness, transformed to positive targets
TargetAttainedCase ==
    /\ Transformed
    /\ ~ZeroChord
    /\ Gt(data.originalThickness, Zero)
    /\ chord = Int2Num(100)
    /\ thicknessPercent = Rat(41, 2)

-----------------------------------------------------------------------------
(* AirfoilViewer: the render effect's scales *)

Margin == [top |-> 40, right |-> 40, bottom |-> 40, left |-> 50]

XPadRatio == Rat(1, 10)
MinHeightRatio == Rat(3, 10)
YPadRatio == Rat(1, 2)

\* d3.extent(values): the least and the greatest value that compares with itself;
\* undefined (NaN in arithmetic) for both when there is none
RECURSIVE D3Extent(_, _)
D3Extent(acc, xs) ==
    IF xs = <<>> THEN acc
    ELSE LET v == Head(xs)
             next == IF IsNaN(acc[1])
                     THEN (IF IsNaN(v) THEN acc ELSE <<v, v>>)
                     ELSE <<IF Gt(acc[1], v) THEN v ELSE acc[1],
                            IF Lt(acc[2], v) THEN v ELSE acc[2]>>
         IN  D3Extent(next, Tail(xs))

Extent(xs) == D3Extent(<<NaN, NaN>>, xs)

\* Math.max(a, b)
Max2(a, b) == MathMax(<<a, b>>)

\* (a variant without the floor for thin shapes)
EffectiveHeightNoFloor(dataHeight, minHeight) == dataHeight

EffectiveHeight(dataHeight, minHeight) == Max2(dataHeight, minHeight)

\* the scales of the render effect for a non-empty points and a measured size
Scales(ps, size) ==
    LET width == size.width - Margin.left - Margin.right
        height == size.height - Margin.top - Margin.bottom
        xExtent == Extent(Xs(ps))
        yExtent == Extent(Ys(ps))
        dataWidth == Sub(xExtent[2], xExtent[1])
        dataHeight == Sub(yExtent[2], yExtent[1])
        xPad == Mul(dataWidth, XPadRatio)
        minHeight == Mul(dataWidth, MinHeightRatio)
        effectiveHeight == EffectiveHeight(dataHeight, minHeight)
        yPad == Mul(effectiveHeight, YPadRatio)
    IN  [status |-> "ok",
         xDomain |-> <<Sub(xExtent[1], xPad), Add(xExtent[2], xPad)>>,
         yDomain |-> <<Sub(yExtent[1], yPad), Add(yExtent[2], yPad)>>,
         xRange |-> <<0, width>>,
         yRange |-> <<height, 0>>]

\* the effect returns without drawing when there is nothing to draw or no room
Skipped == [NoProjection EXCEPT !.status = "skipped"]

MaxViewed == 3

ViewedPoints ==
    { Point(Int2Num(x), Int2Num(y)) : x \in {0, 50, 100}, y \in {-5, 0, 5} }

ViewedSeqs == UNION { [1..k -> ViewedPoints] : k \in 0..MaxViewed }

Sizes == { NoSize, [width |-> 800, height |-> 400] }

InitViewer ==
    /\ points \in ViewedSeqs
    /\ dimensions = NoSize
    /\ projection = NoProjection
    /\ content = <<>>
    /\ fileName = <<>>
    /\ parsed = NoOutcome
    /\ TransformIdle
    /\ ExportIdle
    /\ AppIdle

\* updateSize, on mount and on every resize of the window
UpdateSize ==
    /\ \E size \in Sizes : dimensions' = size
    /\ UNCHANGED <<content, fileName, parsed, data, chord, thicknessPercent,
                   transformed, points, projection, csv,
                   dxf, error, reads, selected>>

\* the render effect (svgRef.current is set once the component is mounted)
RenderD3 ==
    /\ projection' = IF Len(points) = 0 \/ dimensions.width = 0
                     THEN Skipped
                     ELSE Scales(points, dimensions)
    /\ UNCHANGED <<content, fileName, parsed, data, chord, thicknessPercent,
                   transformed, points, dimensions, csv,
                   dxf, error, reads, selected>>

NextViewer == UpdateSize \/ RenderD3

SpecViewer == InitViewer /\ [][NextViewer]_vars

PointXs == { points[i].x : i \in 1..Len(points) }
PointYs == { points[i].y : i \in 1..Len(points) }

\* C9: for non-empty points with x-extent [minX, maxX] and y-extent [minY, maxY]
\* the effect computes xDomain = [minX - 0.1 W, maxX + 0.1 W] and
\* yDomain = [minY - yPad, maxY + yPad], W = maxX - minX, H = maxY - minY,
\* yPad = 0.5 max(H, 0.3 W); x in [0, 100] and y in [-5, 5] give xPad 10, yPad 15
\* and yDomain [-20, 20].
C9_Domains ==
    projection.status = "ok"
        => LET minX == Least(PointXs)
               maxX == Greatest(PointXs)
               minY == Least(PointYs)
               maxY == Greatest(PointYs)
               W == Sub(maxX, minX)
               H == Sub(maxY, minY)
               floor == Mul(Rat(3, 10), W)
               yPad == Mul(Rat(1, 2), IF Lt(H, floor) THEN floor ELSE H)
               xPad == Mul(Rat(1, 10), W)
           IN  /\ projection.xDomain = <<Sub(minX, xPad), Add(maxX, xPad)>>
               /\ projection.yDomain = <<Sub(minY, yPad), Add(maxY, yPad)>>
               /\ (minX = Zero /\ maxX = Int2Num(100)
                     /\ minY = Int2Num(-5) /\ maxY = Int2Num(5))
                    => /\ xPad = Int2Num(10)
                       /\ yPad = Int2Num(15)
                       /\ projection.xDomain = <<Int2Num(-10), Int2Num(110)>>
                       /\ projection.yDomain = <<Int2Num(-20), Int2Num(20)>>

C9_Witness ==
    /\ projection.status = "ok"
    /\ Least(PointXs) = Zero
    /\ Greatest(PointXs) = Int2Num(100)
    /\ Least(PointYs) = Int2Num(-5)
    /\ Greatest(PointYs) = Int2Num(5)
    /\ projection.yDomain = <<Int2Num(-20), Int2Num(20)>>

\* C12: project given an empty point sequence fails with an error surfaced to
\* the caller (EmptyGeometryError) and produces no ProjectionResult.
C12_EmptyGeometryFails ==
    (projection.status # "none" /\ Len(points) = 0) => projection.status = "error"

\* the render effect computes no domains for an empty point sequence
NoProjectionOfEmpty ==
    Len(points) = 0 => projection.status # "ok"

-----------------------------------------------------------------------------
(* Number.prototype.toFixed and generateCSV *)

FractionDigits == 6

DigitChar(i) == DigitChars[i + 1]

\* the decimal digits of a natural number
RECURSIVE NatChars(_)
NatChars(i) ==
    IF i < 10 THEN <<DigitChar(i)>> ELSE NatChars(i \div 10) \o <<DigitChar(i % 10)>>

\* the first k digits of n/d, for 0 <= n/d < 10
RECURSIVE Expand(_, _, _)
Expand(n, d, k) ==
    IF k <= 0 THEN <<>> ELSE <<n \div d>> \o Expand(10 * (n % d), d, k - 1)

\* what is left of n/d after its first k digits, as a numerator over d, times 10
RECURSIVE Rest(_, _, _)
Rest(n, d, k) == IF k <= 0 THEN n ELSE Rest(10 * (n % d), d, k - 1)

\* the digits of n/d to the last non-zero one, 17 at most
RECURSIVE Significant(_, _, _)
Significant(n, d, left) ==
    IF n = 0 \/ left = 0 THEN <<>>
    ELSE <<n \div d>> \o Significant(10 * (n % d), d, left - 1)

\* a digit sequence plus one
RECURSIVE Increment(_)
Increment(ds) ==
    IF ds = <<>> THEN <<1>>
    ELSE IF ds[Len(ds)] < 9 THEN [ds EXCEPT ![Len(ds)] = @ + 1]
    ELSE Increment(SubSeq(ds, 1, Len(ds) - 1)) \o <<0>>

Chars(ds) == [i \in 1..Len(ds) |-> DigitChar(ds[i])]

Zeros(k) == [i \in 1..k |-> "0"]

\* Number::toString for a finite a >= 10^21: d[.ddd]e+x
ExponentialString(a) ==
    LET ds == Chars(Significant(a.n, a.d, 17))
    IN  <<ds[1]>> \o (IF Len(ds) > 1 THEN <<".">> \o Tail(ds) ELSE <<>>)
            \o <<"e", "+">> \o NatChars(a.e)

\* the digits of the integer nearest to a * 10^f, the larger one on a tie,
\* for a finite a >= 0
ScaledDigits(a, f) ==
    LET k == a.e + 1 + f
    IN  IF a.n = 0 THEN <<0>>
        ELSE IF k < 0 THEN <<0>>
        ELSE IF Rest(a.n, a.d, k) >= 5 * a.d
             THEN Increment(Expand(a.n, a.d, k))
        ELSE IF k = 0 THEN <<0>>
        ELSE Expand(a.n, a.d, k)

\* x.toFixed(f)
ToFixed(x, f) ==
    IF IsNaN(x) THEN <<"N", "a", "N">>
    ELSE IF IsInf(x)
         THEN (IF x.n < 0 THEN <<"-">> ELSE <<>>)
                  \o <<"I", "n", "f", "i", "n", "i", "t", "y">>
    ELSE LET s == IF x.n < 0 THEN <<"-">> ELSE <<>>
             a == [x EXCEPT !.n = Abs(x.n)]
         IN  IF a.n # 0 /\ a.e >= 21 THEN s \o ExponentialString(a)
             ELSE LET ds == Chars(ScaledDigits(a, f))
                      m == IF Len(ds) <= f THEN Zeros(f + 1 - Len(ds)) \o ds ELSE ds
                      k == Len(m)
                  IN  IF f = 0 THEN s \o m
                      ELSE s \o SubSeq(m, 1, k - f) \o <<".">> \o SubSeq(m, k - f + 1, k)

CsvHeader == <<"X", ",", "Y", ",", "Z", "\n">>
CsvZ == <<"0", ".", "0", "0", "0", "0", "0", "0">>

CsvLine(p) ==
    ToFixed(p.x, FractionDigits) \o <<",">> \o ToFixed(p.y, FractionDigits)
        \o <<",">> \o CsvZ \o <<"\n">>

RECURSIVE CsvLines(_)
CsvLines(ps) == IF ps = <<>> THEN <<>> ELSE CsvLine(Head(ps)) \o CsvLines(Tail(ps))

generateCSV(ps) == CsvHeader \o CsvLines(ps)

MaxExported == 3

ExportedPoints ==
    { Point(Zero, Zero),
      Point(Norm(19999999, 2, -6), Rat(-25, 2)),      \* 9.9999995, -12.5
      Point(Rat(2, 3), Norm(-1, 1, -7)),              \* 0.666..., -0.0000001
      Point(Int2Num(50), Norm(1, 1, 21)) }            \* 50, 1e21

ExportedSeqs == UNION { [1..k -> ExportedPoints] : k \in 0..MaxExported }

InitExport ==
    /\ points \in ExportedSeqs
    /\ csv = NoText
    /\ dxf = NoText
    /\ content = <<>>
    /\ fileName = <<>>
    /\ parsed = NoOutcome
    /\ TransformIdle
    /\ ViewerIdle
    /\ AppIdle

GenerateCSV ==
    /\ csv' = [status |-> "ok", text |-> generateCSV(points)]
    /\ UNCHANGED <<content, fileName, parsed, data, chord, thicknessPercent,
                   transformed, points, dimensions, projection,
                   dxf, error, reads, selected>>

-----------------------------------------------------------------------------
(* generateDXF *)

\* a group code and its value, each on a line of its own
DxfRecord(code, value) == code \o <<"\n">> \o value \o <<"\n">>

DxfSectionHeader ==
    DxfRecord(<<"0">>, <<"S", "E", "C", "T", "I", "O", "N">>) \o DxfRecord(<<"2">>, <<"E", "N", "T", "I", "T", "I", "E", "S">>)

DxfPolylineHeader ==
    DxfRecord(<<"0">>, <<"P", "O", "L", "Y", "L", "I", "N", "E">>) \o DxfRecord(<<"8">>, <<"0">>)
        \o DxfRecord(<<"6", "6">>, <<"1">>)

DxfZ == <<"0", ".", "0">>

DxfVertex(p) ==
    DxfRecord(<<"0">>, <<"V", "E", "R", "T", "E", "X">>) \o DxfRecord(<<"8">>, <<"0">>)
        \o DxfRecord(<<"1", "0">>, ToFixed(p.x, FractionDigits))
        \o DxfRecord(<<"2", "0">>, ToFixed(p.y, FractionDigits))
        \o DxfRecord(<<"3", "0">>, DxfZ)

RECURSIVE DxfVertices(_)
DxfVertices(ps) ==
    IF ps = <<>> THEN <<>> ELSE DxfVertex(Head(ps)) \o DxfVertices(Tail(ps))

DxfTrailer ==
    DxfRecord(<<"0">>, <<"S", "E", "Q", "E", "N", "D">>) \o DxfRecord(<<"0">>, <<"E", "N", "D", "S", "E", "C">>)
        \o DxfRecord(<<"0">>, <<"E", "O", "F">>)

\* (a variant that closes the polyline with a copy of its first vertex)
generateDXFClosed(ps) ==
    DxfSectionHeader \o DxfPolylineHeader
        \o DxfVertices(IF ps = <<>> THEN ps ELSE ps \o <<ps[1]>>) \o DxfTrailer

generateDXF(ps) ==
    DxfSectionHeader \o DxfPolylineHeader \o DxfVertices(ps) \o DxfTrailer

GenerateDXF ==
    /\ dxf' = [status |-> "ok", text |-> generateDXF(points)]
    /\ UNCHANGED <<content, fileName, parsed, data, chord, thicknessPercent,
                   transformed, points, dimensions, projection,
                   csv, error, reads, selected>>

NextExport == GenerateCSV \/ GenerateDXF

SpecExport == InitExport /\ [][NextExport]_vars

-----------------------------------------------------------------------------
(* The exporters' claims *)

\* a decimal with a digit before the point and exactly f digits after it
IsFixedDecimal(t, f) ==
    LET u == IF t # <<>> /\ t[1] = "-" THEN Tail(t) ELSE t
        dot == Len(u) - f
    IN  /\ dot >= 2
        /\ u[dot] = "."
        /\ \A i \in 1..Len(u) : i # dot => IsDigit(u[i])

HalfUnit(f) == Norm(5, 1, -(f + 1))

\* t is x written with f fractional digits: a fixed decimal within half a unit
\* of the last place of x
WritesFixed(t, x, f) ==
    /\ IsFixedDecimal(t, f)
    /\ LET diff == Sub(ParseFloat(t), x)
       IN  Le(diff, HalfUnit(f)) /\ Le(Neg(HalfUnit(f)), diff)

CsvRows == Split(csv.text, "\n")

\* C10: the output of toTable is the header line X,Y,Z and then one line per
\* point, in order, holding x and y with 6 fractional digits and 0.000000, each
\* line ended by a newline, for every sequence of finite points, empty or not;
\* no line is added for a closing point.
C10_TableFormat ==
    csv.status = "ok"
        => /\ Len(CsvRows) = Len(points) + 2
           /\ CsvRows[1] = <<"X", ",", "Y", ",", "Z">>
           /\ CsvRows[Len(CsvRows)] = <<>>
           /\ \A i \in 1..Len(points) :
                LET fields == Split(CsvRows[i + 1], ",")
                IN  /\ Len(fields) = 3
                    /\ WritesFixed(fields[1], points[i].x, 6)
                    /\ WritesFixed(fields[2], points[i].y, 6)
                    /\ fields[3] = <<"0", ".", "0", "0", "0", "0", "0", "0">>

\* toFixed writes a number of 10^21 or more in exponential notation
BelowExponentialLimit ==
    \A i \in 1..Len(points) : points[i].x.e < 21 /\ points[i].y.e < 21

\* the table format for coordinates below that limit
TableFormatBelowLimit == BelowExponentialLimit => C10_TableFormat

DxfLines == Split(dxf.text, "\n")

\* the lines of the records that open the file: the ENTITIES section and the
\* polyline on layer 0 with the vertices-follow flag
DxfOpening ==
    << <<"0">>, <<"S", "E", "C", "T", "I", "O", "N">>, <<"2">>, <<"E", "N", "T", "I", "T", "I", "E", "S">>,
       <<"0">>, <<"P", "O", "L", "Y", "L", "I", "N", "E">>, <<"8">>, <<"0">>, <<"6", "6">>, <<"1">> >>

\* the lines of the records that close the file
DxfClosing ==
    << <<"0">>, <<"S", "E", "Q", "E", "N", "D">>, <<"0">>, <<"E", "N", "D", "S", "E", "C">>, <<"0">>, <<"E", "O", "F">> >>

\* t is a numeral for x to within half a unit of the 6th fractional digit
WritesValue(t, x) ==
    /\ IsNumber(t)
    /\ LET diff == Sub(ParseFloat(t), x)
       IN  Le(diff, HalfUnit(6)) /\ Le(Neg(HalfUnit(6)), diff)

\* the ten lines of a vertex record are those of point p
IsVertexOf(ls, p) ==
    /\ SubSeq(ls, 1, 5) = << <<"0">>, <<"V", "E", "R", "T", "E", "X">>, <<"8">>, <<"0">>, <<"1", "0">> >>
    /\ WritesValue(ls[6], p.x)
    /\ ls[7] = <<"2", "0">>
    /\ WritesValue(ls[8], p.y)
    /\ ls[9] = <<"3", "0">>
    /\ ls[10] = <<"0", ".", "0">>

\* C11: for every sequence of finite points, empty or not, the output of
\* toVectorExchange is the SECTION/ENTITIES header, one POLYLINE record (layer
\* 0, flag 66 = 1), one VERTEX record per point in input order with 10 = x,
\* 20 = y and 30 = 0.0, then SEQEND, ENDSEC and EOF, in that order and with
\* nothing else: as many VERTEX records as points, no closing point added.
C11_DxfRecords ==
    dxf.status = "ok"
        => LET ls == DxfLines
               n == Len(points)
           IN  /\ Len(ls) = 10 + 10 * n + 6 + 1
               /\ SubSeq(ls, 1, 10) = DxfOpening
               /\ \A i \in 1..n :
                    IsVertexOf(SubSeq(ls, 10 * i + 1, 10 * i + 10), points[i])
               /\ SubSeq(ls, 10 * n + 11, 10 * n + 16) = DxfClosing
               /\ ls[Len(ls)] = <<>>

\* a file written for a polyline whose first and last points coincide
C11_Witness ==
    /\ dxf.status = "ok"
    /\ Len(points) >= 2
    /\ points[1] = points[Len(points)]

-----------------------------------------------------------------------------
(* App: the state, the upload handler, the FileReader's onload callback, *)
(* the sliders and the memoised transformedPoints                        *)

\* the integer part of a finite number, rounding down
Floor(x) ==
    IF x.e >= 0 THEN (x.n * Pow10(x.e)) \div x.d
    ELSE x.n \div (x.d * Pow10(-x.e))

\* Math.round(x): the integer nearest to x, the larger one on a tie; NaN and the
\* infinities are returned as they are
MathRound(x) ==
    IF ~IsFinite(x) THEN x ELSE Int2Num(Floor(Add(x, Rat(1, 2))))

DefaultChord == Int2Num(100)
DefaultThicknessPercent == Int2Num(12)

\* the values tried on the chord slider (min 10, max 1000, step 1)
ChordSlider == { Int2Num(10), Int2Num(1000) }

\* the values tried on the thickness slider (min 1, max 50, step 0.1)
ThicknessSlider == { Int2Num(1), Int2Num(50) }

File(name, text) == [name |-> name, content |-> text]

\* the files the user picks from: a foil (chord 10, thickness 6 %), a flat
\* plate, and a listing with too few coordinate lines
Files ==
    { File(<<"a", ".", "d", "a", "t">>, <<"0", " ", "0", "\n", "1", "e", "1", " ", "+", ".", "1", "\n", "0", " ", "-", "5", "E", "-", "1">>),
      File(<<"b", ".", "d", "a", "t">>, <<"0", " ", "0", "\n", " ", "1", ".", "0", "\t", "0", "\r", "\n", "0", " ", "0">>),
      File(<<"c", ".", "t", "x", "t">>, <<"N", " ", "1", "2", "\n", "0", " ", "0">>) }

MaxUploads == 3

\* useMemo: [] while airfoilData is null, transformPoints of the state otherwise
TransformedPoints(airfoilData, c, t) ==
    IF airfoilData = NoData THEN NoPoints
    ELSE [status |-> "ok", points |-> transformPoints(airfoilData, c, t)]

InitApp ==
    /\ data = NoData
    /\ chord = DefaultChord
    /\ thicknessPercent = DefaultThicknessPercent
    /\ fileName = <<>>
    /\ error = NoError
    /\ transformed = NoPoints
    /\ reads = {}
    /\ selected = <<>>
    /\ content = <<>>
    /\ parsed = NoOutcome
    /\ points = <<>>
    /\ ViewerIdle
    /\ ExportIdle

\* handleFileUpload: the name is shown and the error cleared at once; the file
\* is read in the background (a read is the index of its file in selected)
HandleFileUpload ==
    /\ Len(selected) < MaxUploads
    /\ \E file \in Files :
         /\ fileName' = file.name
         /\ error' = NoError
         /\ selected' = Append(selected, file)
         /\ reads' = reads \cup {Len(selected) + 1}
    /\ UNCHANGED <<content, parsed, data, chord, thicknessPercent, transformed,
                   points, dimensions, projection, csv, dxf>>

\* reader.onload of any read in flight, then the render that follows it
OnLoad ==
    \E r \in reads :
        /\ reads' = reads \ {r}
        /\ content' = selected[r].content
        /\ parsed' = parseDatFile(selected[r].content, selected[r].name)
        /\ IF parsed'.status = "ok"
           THEN /\ data' = parsed'.data
                /\ thicknessPercent' =
                       MathRound(Mul(parsed'.data.originalThickness, Hundred))
                /\ error' = error
           ELSE /\ error' = parsed'.message
                /\ data' = NoData
                /\ thicknessPercent' = thicknessPercent
        /\ transformed' = TransformedPoints(data', chord, thicknessPercent')
        /\ UNCHANGED <<fileName, chord, selected, points, dimensions, projection,
                       csv, dxf>>

\* the chord slider's onChange, then the render that follows it (while
\* airfoilData is null the panel ignores the pointer, not the keyboard)
SetChord ==
    /\ \E c \in ChordSlider :
         /\ chord' = c
         /\ transformed' = TransformedPoints(data, c, thicknessPercent)
    /\ UNCHANGED <<content, fileName, parsed, data, thicknessPercent, points,
                   dimensions, projection, csv, dxf, error, reads, selected>>

\* the thickness slider's onChange, then the render that follows it
SetThicknessPercent ==
    /\ \E t \in ThicknessSlider :
         /\ thicknessPercent' = t
         /\ transformed' = TransformedPoints(data, chord, t)
    /\ UNCHANGED <<content, fileName, parsed, data, chord, points,
                   dimensions, projection, csv, dxf, error, reads, selected>>

NextApp == HandleFileUpload \/ OnLoad \/ SetChord \/ SetThicknessPercent

SpecApp == InitApp /\ [][NextApp]_vars

\* C14: in the App, after any uploads and slider changes, every call of
\* transformPoints made while airfoilData is non-null receives
\* thicknessPercent > 0 and chord > 0, the call made right after an upload
\* has set thicknessPercent to round(originalThickness * 100) included.
C14_TransformPreconditions ==
    transformed.status = "ok"
        => Gt(thicknessPercent, Zero) /\ Gt(chord, Zero)

\* the chord the App hands to transformPoints is always positive
ChordPositive == Gt(chord, Zero)

LastSelected == selected[Len(selected)]

\* C15: once every pending read has completed, the state is that of the file
\* selected last: fileName is its name and, if it parses, airfoilData is its
\* parse result and error is null, otherwise airfoilData is null and error is
\* set; error and airfoilData are never both non-null.
C15_ReflectsLastSelected ==
    /\ (reads = {} /\ selected # <<>>)
         => /\ fileName = LastSelected.name
            /\ \A outcome \in {parseDatFile(LastSelected.content, LastSelected.name)} :
                 IF outcome.status = "ok"
                 THEN data = outcome.data /\ error = NoError
                 ELSE data = NoData /\ error # NoError
    /\ ~(error # NoError /\ data # NoData)

\* the name shown is always that of the file selected last
FileNameOfLastSelected ==
    selected # <<>> => fileName = LastSelected.name

====
